---- MODULE Spec2Model ----
(***************************************************************************)
(* Model of the backup operation of Diomeh/backup (src/src/backup.rs,      *)
(* src/src/writer.rs): the symlink guard, the classifier                   *)
(* determine_backup_type, and the four copy routines, run against a small  *)
(* filesystem on which a concurrent actor may also act.                    *)
(*                                                                         *)
(* A path is a sequence of components.  <<>> is the current directory,     *)
(* which is what the default target "./" and the source "." name.          *)
(* A component is a record [stem, stamp, ext]: the plain name "n" has      *)
(* ext = "", the artifact name "n.<timestamp>.backup" has ext = "backup".  *)
(*                                                                         *)
(* Filesystem calls fail for the reasons the presence and the kind of the  *)
(* entries give (ENOENT, ENOTDIR, EEXIST, EISDIR) and, when the filesystem *)
(* is mounted read-only, with EROFS on every mutation.                     *)
(***************************************************************************)
EXTENDS Integers, Sequences, FiniteSets, TLC

\* ------------------------------------------------------------------ bounds
\* Last instant of the clock, in ticks.
MaxClock == 2

\* Invocations of the tool in one behaviour.
MaxRuns == 2

\* Distinct non-empty file contents.
MaxData == 2

\* ------------------------------------------------------- program constants
\* The format "%Y-%m-%d_%H-%M-%S" has second resolution: the clock's ticks
\* (two per second here) are truncated to whole seconds.
TicksPerSecond == 2

\* ------------------------------------------------------------------- paths
Plain(s) == [stem |-> s, stamp |-> 0, ext |-> ""]

\* format!("{}.{}.backup", source_filename, timestamp)
backup_filename(source_filename, timestamp) ==
    [stem |-> source_filename.stem, stamp |-> timestamp, ext |-> "backup"]

\* chrono::Local::now().format("%Y-%m-%d_%H-%M-%S")
FormatTimestamp(clock) == clock \div TicksPerSecond

Stamps == {FormatTimestamp(c) : c \in 0..MaxClock}

CWD == <<>>
SrcN == <<Plain("n")>>
DirD == <<Plain("d")>>
SrcDN == <<Plain("d"), Plain("n")>>
TgtT == <<Plain("t")>>

Artifacts == {backup_filename(Plain("n"), ts) : ts \in Stamps}

\* Path::join
join(dir, name) == Append(dir, name)

Paths ==
    {CWD, SrcN, DirD, SrcDN, TgtT}
        \cup {join(CWD, a) : a \in Artifacts}
        \cup {join(TgtT, a) : a \in Artifacts}

\* The paths the command line can name.
Sources == {CWD, SrcN, SrcDN}
Targets == {TgtT}

\* Path::parent
parent(p) == SubSeq(p, 1, Len(p) - 1)

\* Path::file_name: the final component when it is a normal one; "." (and
\* "..", "/") have none.
NoName == [stem |-> "", stamp |-> 0, ext |-> ""]
file_name(p) == IF Len(p) = 0 THEN NoName ELSE p[Len(p)]

IsPrefix(p, q) == Len(p) <= Len(q) /\ SubSeq(q, 1, Len(p)) = p

\* -------------------------------------------------------------- filesystem
Data == 0..MaxData

NoEntry == [kind |-> "none", data |-> 0, link |-> CWD]
DirEntry == [kind |-> "dir", data |-> 0, link |-> CWD]
OtherEntry == [kind |-> "other", data |-> 0, link |-> CWD]
FileEntry(d) == [kind |-> "file", data |-> d, link |-> CWD]
LinkEntry(to) == [kind |-> "symlink", data |-> 0, link |-> to]

Entries ==
    {NoEntry, DirEntry, OtherEntry}
        \cup {FileEntry(d) : d \in Data}
        \cup {LinkEntry(to) : to \in {DirD, SrcDN}}

\* std::fs::symlink_metadata: the entry at the path itself.
symlink_metadata(f, p) == f[p]

\* Path::is_symlink
is_symlink(f, p) == symlink_metadata(f, p).kind = "symlink"

\* std::fs::metadata: the entry the path resolves to, following a symlink;
\* kind "none" stands for Err (the path, or the link's destination, is
\* missing).
metadata(f, p) == IF f[p].kind = "symlink" THEN f[f[p].link] ELSE f[p]

is_file(m) == m.kind = "file"
is_dir(m) == m.kind = "dir"

\* mkdir(2)
mkdir(f, ro, p) ==
    IF p = CWD THEN [err |-> "EEXIST", fs |-> f]
    ELSE IF metadata(f, parent(p)).kind = "none" THEN [err |-> "ENOENT", fs |-> f]
    ELSE IF metadata(f, parent(p)).kind # "dir" THEN [err |-> "ENOTDIR", fs |-> f]
    ELSE IF f[p].kind # "none" THEN [err |-> "EEXIST", fs |-> f]
    ELSE IF ro THEN [err |-> "EROFS", fs |-> f]
    ELSE [err |-> "ok", fs |-> [f EXCEPT ![p] = DirEntry]]

\* std::fs::create_dir_all: mkdir; on ENOENT create the parent first and
\* retry; any other failure is Ok exactly when the path is a directory.
RECURSIVE create_dir_all(_, _, _)
create_dir_all(f, ro, p) ==
    LET first == mkdir(f, ro, p) IN
    IF first.err = "ok" THEN first
    ELSE IF first.err # "ENOENT" THEN
        IF is_dir(metadata(f, p)) THEN [err |-> "ok", fs |-> f] ELSE first
    ELSE
        LET up == create_dir_all(f, ro, parent(p)) IN
        IF up.err # "ok" THEN up
        ELSE LET second == mkdir(up.fs, ro, p) IN
             IF second.err = "ok" THEN second
             ELSE IF is_dir(metadata(up.fs, p)) THEN [err |-> "ok", fs |-> up.fs]
             ELSE [err |-> second.err, fs |-> up.fs]

\* The path an open(2) acts on: a symlink in final position is followed.
resolve(f, p) == IF f[p].kind = "symlink" THEN f[p].link ELSE p

\* Variant: the open also carries O_EXCL (create_new), so an existing
\* destination is refused.
open_create_new(f, ro, p) ==
    LET q == resolve(f, p) IN
    IF q = CWD THEN [err |-> "EISDIR", fs |-> f]
    ELSE IF metadata(f, parent(q)).kind = "none" THEN [err |-> "ENOENT", fs |-> f]
    ELSE IF metadata(f, parent(q)).kind # "dir" THEN [err |-> "ENOTDIR", fs |-> f]
    ELSE IF f[q].kind # "none" THEN [err |-> "EEXIST", fs |-> f]
    ELSE IF ro THEN [err |-> "EROFS", fs |-> f]
    ELSE [err |-> "ok", fs |-> [f EXCEPT ![q] = FileEntry(0)]]

\* open(2) with O_WRONLY | O_CREAT | O_TRUNC, as File::create and the
\* destination side of fs::copy use it.
open_create_truncate(f, ro, p) ==
    LET q == resolve(f, p) IN
    IF q = CWD THEN [err |-> "EISDIR", fs |-> f]
    ELSE IF metadata(f, parent(q)).kind = "none" THEN [err |-> "ENOENT", fs |-> f]
    ELSE IF metadata(f, parent(q)).kind # "dir" THEN [err |-> "ENOTDIR", fs |-> f]
    ELSE IF f[q].kind = "dir" THEN [err |-> "EISDIR", fs |-> f]
    ELSE IF ro THEN [err |-> "EROFS", fs |-> f]
    ELSE IF f[q].kind = "other" THEN [err |-> "ok", fs |-> f]
    ELSE [err |-> "ok", fs |-> [f EXCEPT ![q] = FileEntry(0)]]

\* std::fs::File::create
File_create(f, ro, p) == open_create_truncate(f, ro, p)

\* Variant: the destination is created or truncated but the bytes are
\* never written.
copy_without_bytes(f, ro, from, to) ==
    IF metadata(f, from).kind = "none" THEN [err |-> "ENOENT", fs |-> f]
    ELSE IF ~is_file(metadata(f, from)) THEN [err |-> "EINVAL", fs |-> f]
    ELSE open_create_truncate(f, ro, to)

\* std::fs::copy: the source must be a regular file (checked before the
\* destination is opened); the destination is created or truncated and
\* receives the source's bytes.
copy(f, ro, from, to) ==
    IF metadata(f, from).kind = "none" THEN [err |-> "ENOENT", fs |-> f]
    ELSE IF ~is_file(metadata(f, from)) THEN [err |-> "EINVAL", fs |-> f]
    ELSE LET opened == open_create_truncate(f, ro, to) IN
         IF opened.err # "ok" THEN opened
         ELSE IF opened.fs[resolve(f, to)].kind = "file"
             THEN [err |-> "ok",
                   fs |-> [opened.fs EXCEPT
                              ![resolve(f, to)] = FileEntry(metadata(f, from).data)]]
         ELSE opened

\* A concurrent "rm -r": the entry and everything below it disappear.
remove_all(f, p) == [q \in Paths |-> IF IsPrefix(p, q) THEN NoEntry ELSE f[q]]

\* ------------------------------------------------------------------- state
VARIABLES
    fs,               \* the filesystem: Paths -> Entries
    readonly,         \* the filesystem is mounted read-only
    clock,            \* wall clock, in ticks
    pc,               \* position of the process in backup()
    args,             \* backup's parameters: two Option<&String>
    source,           \* backup's local `source`
    target,           \* backup's local `target`
    backup_type,      \* result of determine_backup_type
    routine,          \* the copy routine entered, "none" before dispatch
    target_metadata,  \* the routine's local `target_metadata`
    timestamp,        \* the routine's local `timestamp`, -1 before it is taken
    backup_path,      \* the routine's local `backup_path`
    exit_code,        \* the process's exit status, -1 while it runs
    stderr,           \* the error line printed before the usage text
    calls,            \* history: the mutating calls this run made, with results
    touched,          \* history: the paths this run's own calls changed
    src_at_copy,      \* history: the source's entry when fs::copy ran
    fs0,              \* history: the filesystem when backup was invoked
    race,             \* history: what the concurrent actor did since then
    delAt,            \* history: pc at which the actor deleted the target
    prev,             \* history: summary of the preceding run
    runs              \* history: number of invocations so far

vars ==
    <<fs, readonly, clock, pc, args, source, target, backup_type, routine,
      target_metadata, timestamp, backup_path, exit_code, stderr, calls,
      touched, src_at_copy, fs0, race, delAt, prev, runs>>

locals == <<source, target, backup_type, routine, target_metadata, timestamp, backup_path>>
history == <<calls, touched, src_at_copy>>
world == <<readonly, clock, fs0, race, delAt, prev, runs, args>>

Some(p) == [some |-> TRUE, path |-> p]
None == [some |-> FALSE, path |-> CWD]

Terminal == {"idle", "returned", "exited"}
RoutinePcs == {"meta_src", "meta_tgt", "container", "name", "mkdir", "copy"}

NoPrev ==
    [valid |-> FALSE, args |-> [source |-> None, target |-> None],
     timestamp |-> -1, exit_code |-> -1, touched |-> {}, calls |-> <<>>]

\* A filesystem is well formed when every entry lies in a directory.
WellFormed(f) ==
    \A p \in Paths : p # CWD /\ f[p].kind # "none" => f[parent(p)].kind = "dir"

InitFs(n, dn, t) ==
    [p \in Paths |->
        IF p = CWD \/ p = DirD THEN DirEntry
        ELSE IF p = SrcN THEN n
        ELSE IF p = SrcDN THEN dn
        ELSE IF p = TgtT THEN t
        ELSE NoEntry]

Init ==
    /\ \E n \in {NoEntry, FileEntry(1), DirEntry, OtherEntry, LinkEntry(SrcDN)},
          dn \in {FileEntry(2), DirEntry},
          t \in {NoEntry, FileEntry(1), DirEntry, OtherEntry, LinkEntry(DirD)} :
            fs = InitFs(n, dn, t)
    /\ readonly \in BOOLEAN
    /\ clock = 0
    /\ pc = "idle"
    /\ args = [source |-> None, target |-> None]
    /\ source = CWD
    /\ target = CWD
    /\ backup_type = [ok |-> FALSE, type |-> "none", error |-> ""]
    /\ routine = "none"
    /\ target_metadata = NoEntry
    /\ timestamp = -1
    /\ backup_path = CWD
    /\ exit_code = -1
    /\ stderr = ""
    /\ calls = <<>>
    /\ touched = {}
    /\ src_at_copy = NoEntry
    /\ fs0 = fs
    /\ race = "none"
    /\ delAt = "none"
    /\ prev = NoPrev
    /\ runs = 0

\* ------------------------------------------------------------- the process
\* main, "b" | "backup": a fresh process calls backup(iter.next(), iter.next()).
Invoke ==
    /\ pc \in Terminal
    /\ runs < MaxRuns
    /\ runs' = runs + 1
    /\ \E s \in {None} \cup {Some(p) : p \in Sources},
          t \in {None} \cup {Some(p) : p \in Targets} :
            args' = [source |-> s, target |-> t]
    /\ pc' = "start"
    /\ source' = CWD
    /\ target' = CWD
    /\ backup_type' = [ok |-> FALSE, type |-> "none", error |-> ""]
    /\ routine' = "none"
    /\ target_metadata' = NoEntry
    /\ timestamp' = -1
    /\ backup_path' = CWD
    /\ exit_code' = -1
    /\ stderr' = ""
    /\ calls' = <<>>
    /\ touched' = {}
    /\ src_at_copy' = NoEntry
    /\ fs0' = fs
    /\ race' = "none"
    /\ delAt' = "none"
    /\ prev' = IF runs = 0 THEN NoPrev
               ELSE [valid |-> TRUE, args |-> args, timestamp |-> timestamp,
                     exit_code |-> exit_code, touched |-> touched, calls |-> calls]
    /\ UNCHANGED <<fs, readonly, clock>>

\* writer::usage(exit_code, is_stdout): print the usage text, then
\* process::exit(exit_code).
usage(code, is_stdout) ==
    /\ pc' = "exited"
    /\ exit_code' = code

\* backup, lines 56-60: no source given.
backup_no_source ==
    /\ pc = "start"
    /\ ~args.source.some
    /\ stderr' = "No action received"
    /\ usage(1, FALSE)
    /\ UNCHANGED <<fs, locals, history, world>>

\* backup, lines 62-64: unwrap the source, default the target to "./".
backup_unwrap ==
    /\ pc = "start"
    /\ args.source.some
    /\ source' = args.source.path
    /\ target' = IF args.target.some THEN args.target.path ELSE CWD
    /\ pc' = "guard"
    /\ UNCHANGED <<fs, backup_type, routine, target_metadata, timestamp,
                   backup_path, exit_code, stderr, history, world>>

\* Variant: the guard looks at the source only.
symlink_guard_source_only == is_symlink(fs, source)

\* backup, lines 66-71: the symlink guard.
symlink_guard_hit == is_symlink(fs, source) \/ is_symlink(fs, target)

backup_symlink_guard ==
    /\ pc = "guard"
    /\ IF symlink_guard_hit
         THEN /\ stderr' = "Symlinks are not supported!"
              /\ usage(1, FALSE)
         ELSE /\ pc' = "classify"
              /\ UNCHANGED <<stderr, exit_code>>
    /\ UNCHANGED <<fs, locals, history, world>>

\* Variant: the target's metadata is fetched before the source's.
determine_backup_type_target_first(f, src, tgt) ==
    LET source_metadata == metadata(f, src)
        tgt_metadata == metadata(f, tgt)
        Ok(t) == [ok |-> TRUE, type |-> t, error |-> ""]
        Err(e) == [ok |-> FALSE, type |-> "none", error |-> e]
    IN  IF tgt_metadata.kind = "none"
            THEN Err("Target file or directory does not exist")
        ELSE IF source_metadata.kind = "none"
            THEN Err("Source file or directory does not exist")
        ELSE IF is_file(source_metadata) /\ is_dir(tgt_metadata)
            THEN Ok("FileDirectory")
        ELSE IF is_file(source_metadata) /\ is_file(tgt_metadata)
            THEN Ok("FileFile")
        ELSE IF is_dir(source_metadata) /\ is_dir(tgt_metadata)
            THEN Ok("DirectoryDirectory")
        ELSE IF is_dir(source_metadata) /\ is_file(tgt_metadata)
            THEN Ok("DirectoryFile")
        ELSE Err("Unknown error")

\* Variant: the last test is dropped, so whatever reaches it is taken for a
\* directory backed up onto a file.
determine_backup_type_no_last_test(f, src, tgt) ==
    LET source_metadata == metadata(f, src)
        tgt_metadata == metadata(f, tgt)
        Ok(t) == [ok |-> TRUE, type |-> t, error |-> ""]
        Err(e) == [ok |-> FALSE, type |-> "none", error |-> e]
    IN  IF source_metadata.kind = "none"
            THEN Err("Source file or directory does not exist")
        ELSE IF tgt_metadata.kind = "none"
            THEN Err("Target file or directory does not exist")
        ELSE IF is_file(source_metadata) /\ is_dir(tgt_metadata)
            THEN Ok("FileDirectory")
        ELSE IF is_file(source_metadata) /\ is_file(tgt_metadata)
            THEN Ok("FileFile")
        ELSE IF is_dir(source_metadata) /\ is_dir(tgt_metadata)
            THEN Ok("DirectoryDirectory")
        ELSE Ok("DirectoryFile")

\* determine_backup_type
determine_backup_type(f, src, tgt) ==
    LET source_metadata == metadata(f, src)
        tgt_metadata == metadata(f, tgt)
        Ok(t) == [ok |-> TRUE, type |-> t, error |-> ""]
        Err(e) == [ok |-> FALSE, type |-> "none", error |-> e]
    IN  IF source_metadata.kind = "none"
            THEN Err("Source file or directory does not exist")
        ELSE IF tgt_metadata.kind = "none"
            THEN Err("Target file or directory does not exist")
        ELSE IF is_file(source_metadata) /\ is_dir(tgt_metadata)
            THEN Ok("FileDirectory")
        ELSE IF is_file(source_metadata) /\ is_file(tgt_metadata)
            THEN Ok("FileFile")
        ELSE IF is_dir(source_metadata) /\ is_dir(tgt_metadata)
            THEN Ok("DirectoryDirectory")
        ELSE IF is_dir(source_metadata) /\ is_file(tgt_metadata)
            THEN Ok("DirectoryFile")
        ELSE Err("Unknown error")

\* backup, line 73: run the classifier.
backup_classify ==
    /\ pc = "classify"
    /\ backup_type' = determine_backup_type(fs, source, target)
    /\ pc' = "match"
    /\ UNCHANGED <<fs, source, target, routine, target_metadata, timestamp,
                   backup_path, exit_code, stderr, history, world>>

\* Variant: the result is not matched; an Err enters a copy routine too.
backup_dispatch_unmatched ==
    /\ pc = "match"
    /\ routine' = IF backup_type.ok THEN backup_type.type ELSE "FileDirectory"
    /\ pc' = "meta_src"
    /\ UNCHANGED <<fs, source, target, backup_type, target_metadata, timestamp,
                   backup_path, exit_code, stderr, history, world>>

\* backup, lines 74-82: Ok(shape) enters the shape's copy routine.
backup_dispatch ==
    /\ pc = "match"
    /\ backup_type.ok
    /\ routine' = backup_type.type
    /\ pc' = "meta_src"
    /\ UNCHANGED <<fs, source, target, backup_type, target_metadata, timestamp,
                   backup_path, exit_code, stderr, history, world>>

\* backup, lines 83-87: Err(error) is printed and the process exits with 1.
backup_classify_error ==
    /\ pc = "match"
    /\ ~backup_type.ok
    /\ stderr' = backup_type.error
    /\ usage(1, FALSE)
    /\ UNCHANGED <<fs, locals, history, world>>

\* ------------------------------------------------------- the copy routines
\* A routine's `return`: backup returns, main returns, the process ends
\* with status 0.
Return ==
    /\ pc' = "returned"
    /\ exit_code' = 0

\* The effect of one mutating call with result r.
Effect(name, r) ==
    /\ fs' = r.fs
    /\ calls' = Append(calls, [call |-> name, err |-> r.err])
    /\ touched' = touched \cup {p \in Paths : r.fs[p] # fs[p]}

\* let source_metadata = match std::fs::metadata(source) ...
refetch_source ==
    /\ pc = "meta_src"
    /\ IF metadata(fs, source).kind = "none"
         THEN Return
         ELSE pc' = "meta_tgt" /\ UNCHANGED exit_code
    /\ UNCHANGED <<fs, locals, stderr, history, world>>

\* Variant: a failed metadata(target) does not return.
refetch_target_unchecked ==
    /\ pc = "meta_tgt"
    /\ target_metadata' = metadata(fs, target)
    /\ pc' = "container"
    /\ UNCHANGED <<fs, source, target, backup_type, routine, timestamp,
                   backup_path, exit_code, stderr, history, world>>

\* let target_metadata = match std::fs::metadata(target) ...
refetch_target ==
    /\ pc = "meta_tgt"
    /\ IF metadata(fs, target).kind = "none"
         THEN Return /\ UNCHANGED target_metadata
         ELSE /\ target_metadata' = metadata(fs, target)
              /\ pc' = "container"
              /\ UNCHANGED exit_code
    /\ UNCHANGED <<fs, source, target, backup_type, routine, timestamp,
                   backup_path, stderr, history, world>>

\* if !target_metadata.is_dir() { create_dir_all(target) }
ensure_directory ==
    /\ pc = "container"
    /\ IF ~is_dir(target_metadata)
         THEN LET r == create_dir_all(fs, readonly, target) IN
              /\ Effect("create_dir_all(target)", r)
              /\ IF r.err = "ok" THEN pc' = "name" /\ UNCHANGED exit_code
                                 ELSE Return
         ELSE /\ pc' = "name"
              /\ UNCHANGED <<fs, calls, touched, exit_code>>
    /\ UNCHANGED <<locals, stderr, src_at_copy, world>>

\* Variant: the test is inverted, File::create runs on an existing file.
ensure_file_inverted ==
    /\ pc = "container"
    /\ IF is_file(target_metadata)
         THEN LET r == File_create(fs, readonly, target) IN
              /\ Effect("File::create(target)", r)
              /\ IF r.err = "ok" THEN pc' = "name" /\ UNCHANGED exit_code
                                 ELSE Return
         ELSE /\ pc' = "name"
              /\ UNCHANGED <<fs, calls, touched, exit_code>>
    /\ UNCHANGED <<locals, stderr, src_at_copy, world>>

\* if !target_metadata.is_file() { File::create(target) }
ensure_file ==
    /\ pc = "container"
    /\ IF ~is_file(target_metadata)
         THEN LET r == File_create(fs, readonly, target) IN
              /\ Effect("File::create(target)", r)
              /\ IF r.err = "ok" THEN pc' = "name" /\ UNCHANGED exit_code
                                 ELSE Return
         ELSE /\ pc' = "name"
              /\ UNCHANGED <<fs, calls, touched, exit_code>>
    /\ UNCHANGED <<locals, stderr, src_at_copy, world>>

\* source_filename, timestamp, backup_filename, backup_path.  The source is
\* a String, so its final component is always valid UTF-8 and to_str never
\* fails.
name_backup(next) ==
    /\ pc = "name"
    /\ IF file_name(source) = NoName
         THEN Return /\ UNCHANGED <<timestamp, backup_path>>
         ELSE /\ timestamp' = FormatTimestamp(clock)
              /\ backup_path' =
                    join(target, backup_filename(file_name(source), FormatTimestamp(clock)))
              /\ pc' = next
              /\ UNCHANGED exit_code
    /\ UNCHANGED <<fs, source, target, backup_type, routine, target_metadata,
                   stderr, history, world>>

\* Variant: the artifact directory is never created.
make_backup_directory_skipped ==
    /\ pc = "mkdir"
    /\ pc' = "copy"
    /\ UNCHANGED <<fs, locals, exit_code, stderr, history, world>>

\* match std::fs::create_dir_all(&backup_path) ...
make_backup_directory ==
    /\ pc = "mkdir"
    /\ LET r == create_dir_all(fs, readonly, backup_path) IN
        /\ Effect("create_dir_all(backup_path)", r)
        /\ IF r.err = "ok" THEN pc' = "copy" /\ UNCHANGED exit_code
                           ELSE Return
    /\ UNCHANGED <<locals, stderr, src_at_copy, world>>

\* match std::fs::copy(source, backup_path) ...: both arms return.
copy_source ==
    /\ pc = "copy"
    /\ Effect("copy(source, backup_path)", copy(fs, readonly, source, backup_path))
    /\ src_at_copy' = metadata(fs, source)
    /\ Return
    /\ UNCHANGED <<locals, stderr, world>>

backup_file_directory ==
    /\ routine = "FileDirectory"
    /\ \/ refetch_source
       \/ refetch_target
       \/ ensure_directory
       \/ name_backup("copy")
       \/ copy_source

backup_file_file ==
    /\ routine = "FileFile"
    /\ \/ refetch_source
       \/ refetch_target
       \/ ensure_file
       \/ name_backup("copy")
       \/ copy_source

backup_directory_directory ==
    /\ routine = "DirectoryDirectory"
    /\ \/ refetch_source
       \/ refetch_target
       \/ ensure_directory
       \/ name_backup("mkdir")
       \/ make_backup_directory
       \/ copy_source

backup_directory_file ==
    /\ routine = "DirectoryFile"
    /\ \/ refetch_source
       \/ refetch_target
       \/ ensure_file
       \/ name_backup("copy")
       \/ copy_source

\* backup(source, target), one step at a time.
backup ==
    \/ backup_no_source
    \/ backup_unwrap
    \/ backup_symlink_guard
    \/ backup_classify
    \/ backup_dispatch
    \/ backup_classify_error
    \/ backup_file_directory
    \/ backup_file_file
    \/ backup_directory_directory
    \/ backup_directory_file

\* --------------------------------------------------------- the environment
\* The clock advances.  The program reads it at one place only, so it is
\* enough to let it advance right before that read.
Tick ==
    /\ pc = "name"
    /\ clock < MaxClock
    /\ clock' = clock + 1
    /\ UNCHANGED <<fs, readonly, pc, args, locals, exit_code, stderr, history,
                   fs0, race, delAt, prev, runs>>

\* The concurrent actor acts on the target at most once, after the
\* classifier of the behaviour's last run has returned (the runs before it
\* prepare the filesystem); what it did and the position it hit are
\* remembered.
Raced(deletion) ==
    /\ race = "none"
    /\ runs = MaxRuns
    /\ pc \in RoutinePcs \cup {"match"}
    /\ race' = IF deletion THEN "deleted" ELSE "replaced"
    /\ delAt' = pc

\* A concurrent actor deletes the target.
EnvDeleteTarget ==
    /\ fs[TgtT].kind # "none"
    /\ fs' = remove_all(fs, TgtT)
    /\ Raced(TRUE)
    /\ UNCHANGED <<readonly, clock, pc, args, locals, exit_code, stderr,
                   history, fs0, prev, runs>>

\* A concurrent actor puts a file or a directory in the target's place.
EnvReplaceTarget ==
    /\ \E e \in {FileEntry(0), DirEntry} :
        /\ fs[TgtT] # e
        /\ fs' = [remove_all(fs, TgtT) EXCEPT ![TgtT] = e]
    /\ Raced(FALSE)
    /\ UNCHANGED <<readonly, clock, pc, args, locals, exit_code, stderr,
                   history, fs0, prev, runs>>

\* Between two runs (the process is gone) the source file's owner rewrites
\* it.
EnvWriteSource ==
    /\ pc \in {"returned", "exited"}
    /\ pc' = "idle"
    /\ runs < MaxRuns
    /\ fs[SrcN].kind = "file"
    /\ \E d \in 1..MaxData :
        /\ fs[SrcN].data # d
        /\ fs' = [fs EXCEPT ![SrcN] = FileEntry(d)]
    /\ UNCHANGED <<readonly, clock, args, locals, exit_code, stderr,
                   history, fs0, race, delAt, prev, runs>>

Next ==
    \/ Invoke
    \/ backup
    \/ Tick
    \/ EnvDeleteTarget
    \/ EnvReplaceTarget
    \/ EnvWriteSource

Spec == Init /\ [][Next]_vars

TypeOK ==
    /\ fs \in [Paths -> Entries]
    /\ WellFormed(fs)
    /\ clock \in 0..MaxClock
    /\ pc \in Terminal \cup RoutinePcs \cup {"start", "guard", "classify", "match"}
    /\ exit_code \in {-1, 0, 1}
    /\ touched \subseteq Paths
    /\ Len(calls) <= 3

\* ------------------------------------------------------------ vocabulary
\* The paths the invocation names (the target defaulted to "./").
ArgSource == args.source.path
ArgTarget == IF args.target.some THEN args.target.path ELSE CWD

\* The run is over: the routine returned, or usage() ended the process.
Over == pc \in {"returned", "exited"}

\* The classifier has run in this invocation, and the process is still
\* there or has just ended.
Classified == pc # "idle" /\ (backup_type.ok \/ backup_type.error # "")

\* No concurrent actor touched the target during this run.
Alone == race = "none"

SourceKind0 == metadata(fs0, ArgSource).kind
TargetKind0 == metadata(fs0, ArgTarget).kind

\* Entries that exist now and did not when backup was invoked.
NewEntries == {p \in Paths : fs0[p].kind = "none" /\ fs[p].kind # "none"}

\* The artifact paths <target>/<source-basename>.<timestamp>.backup.
ArtifactPaths ==
    {p \in Paths : \E ts \in Stamps :
        p = join(ArgTarget, backup_filename(file_name(ArgSource), ts))}

Named == file_name(ArgSource) # NoName
CopyCall(e) == [call |-> "copy(source, backup_path)", err |-> e]
FailedCopy(c) == c.call = "copy(source, backup_path)" /\ c.err # "ok"
MkdirCall(e) == [call |-> "create_dir_all(backup_path)", err |-> e]
ClassificationErrors ==
    {"Source file or directory does not exist",
     "Target file or directory does not exist",
     "Unknown error"}

\* ---------------------------------------------------------------------- C1
\* C1: when the source or the (defaulted) target is a symlink, backup stops
\* at the guard: the classifier never runs, no routine is entered, the
\* program makes no filesystem call that mutates, the filesystem is as it
\* was, and the process exits with code 1.
C1_SymlinkRejection ==
    (/\ pc \notin {"idle", "start", "guard"}
     /\ args.source.some
     /\ (is_symlink(fs0, ArgSource) \/ is_symlink(fs0, ArgTarget)))
    => /\ pc = "exited"
       /\ exit_code = 1
       /\ stderr = "Symlinks are not supported!"
       /\ backup_type = [ok |-> FALSE, type |-> "none", error |-> ""]
       /\ routine = "none"
       /\ calls = <<>>
       /\ touched = {}
       /\ fs = fs0

C1_Witness ==
    /\ pc = "exited"
    /\ args.source.some
    /\ is_symlink(fs0, ArgTarget)
    /\ ~is_symlink(fs0, ArgSource)
    /\ SourceKind0 = "file"

C3_Original ==
    (pc = "returned" /\ Alone /\ ~readonly /\ SourceKind0 = "file" /\ TargetKind0 = "dir")
    => \E bp \in ArtifactPaths :
          /\ NewEntries = {bp}
          /\ fs[bp] = FileEntry(src_at_copy.data)
          /\ \A p \in Paths \ {bp} : fs[p] = fs0[p]

\* C3 amended: for a regular-file source, an existing directory target, a
\* writable filesystem and no concurrent change of the target, backup
\* returns having changed at most the path
\* <target>/<source-basename>.<timestamp>.backup: when nothing was there it
\* is the one new entry, a file with the source's bytes; when a file was
\* there it is overwritten with the source's bytes and no entry is new; when
\* a directory was there nothing changes.
C3_FileToDirectory ==
    (pc = "returned" /\ Alone /\ ~readonly /\ SourceKind0 = "file" /\ TargetKind0 = "dir")
    => /\ exit_code = 0
       /\ timestamp = FormatTimestamp(clock)
       /\ backup_path = join(ArgTarget, backup_filename(file_name(ArgSource), timestamp))
       /\ touched \subseteq {backup_path}
       /\ \A p \in Paths \ {backup_path} : fs[p] = fs0[p]
       /\ src_at_copy = fs[ArgSource]
       /\ fs0[backup_path].kind \in {"none", "file", "dir"}
       /\ fs0[backup_path].kind = "none" =>
            fs[backup_path] = FileEntry(src_at_copy.data) /\ NewEntries = {backup_path}
       /\ fs0[backup_path].kind = "file" =>
            fs[backup_path] = FileEntry(src_at_copy.data) /\ NewEntries = {}
       /\ fs0[backup_path].kind = "dir" => fs = fs0

C3_Witness ==
    /\ pc = "returned" /\ Alone /\ ~readonly
    /\ SourceKind0 = "file" /\ TargetKind0 = "dir"
    /\ fs0[backup_path].kind = "none"
    /\ fs[backup_path].kind = "file"
    /\ ArgTarget = TgtT

SameSecondTwice ==
    /\ pc = "returned"
    /\ Alone
    /\ prev.valid
    /\ prev.args = args
    /\ timestamp # -1
    /\ prev.timestamp = timestamp
    /\ SourceKind0 \in {"file", "dir"}
    /\ TargetKind0 = "dir"

\* The calls of a run that wrote its artifact.
Produced(cs) ==
    IF SourceKind0 = "file" THEN cs = <<CopyCall("ok")>>
    ELSE cs = <<MkdirCall("ok"), CopyCall("EINVAL")>>

C6_CreatesMissingTarget ==
    (/\ Over /\ Alone /\ ~readonly
     /\ args.source.some /\ args.target.some
     /\ SourceKind0 = "file" /\ ~is_symlink(fs0, ArgSource)
     /\ fs0[ArgTarget].kind = "none")
    => /\ pc = "returned"
       /\ fs[ArgTarget].kind = "dir"
       /\ \E bp \in ArtifactPaths : fs[bp] = FileEntry(fs[ArgSource].data)

\* ---------------------------------------------------------------------- C7
\* C7: once the classifier has run on a source and a target that both
\* exist, its result is the shape FileDirectory, FileFile,
\* DirectoryDirectory or DirectoryFile exactly for the kinds (file, dir),
\* (file, file), (dir, dir), (dir, file), and for every other pair of kinds
\* it is the error "Unknown error" and no shape.
C7_ClassifierTotality ==
    (Classified /\ SourceKind0 # "none" /\ TargetKind0 # "none")
    => /\ backup_type.ok <=> (SourceKind0 \in {"file", "dir"} /\ TargetKind0 \in {"file", "dir"})
       /\ backup_type.type =
            IF SourceKind0 = "file" /\ TargetKind0 = "dir" THEN "FileDirectory"
            ELSE IF SourceKind0 = "file" /\ TargetKind0 = "file" THEN "FileFile"
            ELSE IF SourceKind0 = "dir" /\ TargetKind0 = "dir" THEN "DirectoryDirectory"
            ELSE IF SourceKind0 = "dir" /\ TargetKind0 = "file" THEN "DirectoryFile"
            ELSE "none"
       /\ backup_type.error = IF backup_type.ok THEN "" ELSE "Unknown error"
       /\ routine \in {"none", backup_type.type}

C7_Witness ==
    /\ pc = "exited"
    /\ stderr = "Unknown error"
    /\ SourceKind0 = "dir"
    /\ TargetKind0 = "other"

\* ---------------------------------------------------------------------- C8
\* The target was deleted by the concurrent actor after the classifier
\* returned a shape and before the routine's copy step.
DeletedBeforeCopy ==
    /\ pc = "returned"
    /\ race = "deleted"
    /\ target = TgtT
    /\ routine # "none"
    /\ delAt \in {"match", "meta_src", "meta_tgt", "container", "name", "mkdir"}
                   \cup (IF routine = "DirectoryDirectory" THEN {} ELSE {"copy"})

\* The deletion came before the routine fetched the target's metadata again.
DeletedBeforeRefetch == delAt \in {"match", "meta_src", "meta_tgt"}

\* C8 as stated: in each of the four routines such a deletion makes the
\* routine abort silently: no mutation, the target and the artifact are not
\* re-created, nothing is printed and the process does not end abnormally.
C8_Original ==
    DeletedBeforeCopy
    => /\ \A i \in 1..Len(calls) : FailedCopy(calls[i])
       /\ touched = {}
       /\ fs[TgtT].kind = "none"
       /\ stderr = ""
       /\ exit_code = 0

\* C8 amended: such a deletion never surfaces an error nor ends the process
\* abnormally.  When it comes before the routine fetches the target's
\* metadata again, every routine returns at once without a mutating call.
\* When it comes later, backup_file_directory, backup_file_file and
\* backup_directory_file still mutate nothing (their copy fails), but
\* backup_directory_directory's create_dir_all(backup_path) re-creates the
\* target directory and the artifact directory inside it (when the source
\* has a final name component and the filesystem is writable).
C8_TargetDeleted ==
    DeletedBeforeCopy
    => /\ stderr = ""
       /\ exit_code = 0
       /\ DeletedBeforeRefetch => calls = <<>> /\ touched = {}
       /\ (routine # "DirectoryDirectory" \/ DeletedBeforeRefetch) =>
            /\ touched = {}
            /\ fs[TgtT].kind = "none"
            /\ \A i \in 1..Len(calls) : FailedCopy(calls[i])
       /\ (routine = "DirectoryDirectory" /\ ~DeletedBeforeRefetch /\ Named /\ ~readonly) =>
            /\ fs[TgtT] = DirEntry
            /\ fs[backup_path] = DirEntry
            /\ touched = {TgtT, backup_path}

C8_Witness ==
    /\ DeletedBeforeCopy
    /\ routine = "FileDirectory"
    /\ delAt = "container"
    /\ calls = <<CopyCall("ENOENT")>>

\* ---------------------------------------------------------------------- C9
\* The steps of backup outside the copy routines, the classifier's among
\* them, leave the filesystem as it is.  (Every step of the running program
\* moves pc; the concurrent actor's do not.)
C9_Step ==
    (pc' # pc /\ pc \in {"start", "guard", "classify", "match"})
        => (fs' = fs /\ calls' = <<>> /\ touched' = {})

\* A mutating call was made only after the guard passed and the classifier
\* returned a shape; a run that ended in a classification error made none,
\* left the filesystem as it was and exited with code 1.
C9_State ==
    /\ (calls # <<>> \/ touched # {}) =>
            /\ backup_type.ok
            /\ routine = backup_type.type
            /\ ~is_symlink(fs0, ArgSource)
            /\ ~is_symlink(fs0, ArgTarget)
    /\ (pc = "exited" /\ stderr \in ClassificationErrors) =>
            /\ exit_code = 1
            /\ calls = <<>>
            /\ touched = {}
            /\ routine = "none"
            /\ Alone => fs = fs0

\* C9: the classifier never mutates the filesystem, every mutation comes
\* after the symlink guard passed and the classifier returned a shape, and a
\* run ending in a classification error leaves the filesystem unchanged and
\* exits with code 1.
C9_MutationOrdering == [][C9_Step]_vars /\ []C9_State

C9_Witness ==
    /\ pc = "exited"
    /\ stderr = "Unknown error"
    /\ SourceKind0 = "other"
    /\ fs = fs0

====
